---------------------------- MODULE Spec2Model ----------------------------
(***************************************************************************)
(* A model of the interval scheduler of src/src/App.tsx: the row           *)
(* collection (events), the create-selection flags, the drag state, the    *)
(* collision resolver (allowedRangeFor), the persistence validator and     *)
(* the debounced auto-save timer.                                          *)
(*                                                                         *)
(* Conventions.  Rows and events are kept in TLA+ sequences (1-based);     *)
(* the code's 0-based indices are kept as they are and converted at the    *)
(* point of access (row rowIdx is evs[rowIdx + 1]).  A title is a sequence *)
(* of one-character strings, so that trim() is computed and not assumed.   *)
(* Each handler is one atomic action that sees the state of the last       *)
(* render (React re-renders between two DOM events).                       *)
(***************************************************************************)
EXTENDS Integers, Sequences, FiniteSets, TLC

\* ------------------------------------------------------------ constants
ROWS == 3
START_HOUR == 9
END_HOUR == 20
SLOTS_PER_HOUR == 4
TOTAL_SLOTS == (END_HOUR - START_HOUR) * SLOTS_PER_HOUR

\* JavaScript's null in the number | null fields of the select and drag state.
Null == -1

\* The value of a missing title field (typeof ev.title === 'undefined'):
\* no text a user can type, since every character of a text is one-character.
Undefined == <<"undefined">>

\* ------------------------------------------------------------ bounds
\* Handler invocations explored by Spec.
MaxOps == 3
\* Handler invocations explored by SpecGesture (one gesture, every slot).
MaxGestureOps == 3
\* Longest row handed to the resolver by SpecResolve.
MaxResolveLen == 2
MaxValidateLen == 2
MaxDriftOps == 6

\* ------------------------------------------------------------ helpers
Min(a, b) == IF a <= b THEN a ELSE b
Max(a, b) == IF a >= b THEN a ELSE b

AllSlots == 0 .. (TOTAL_SLOTS - 1)
RowIdxs == 0 .. (ROWS - 1)

\* Array.from({ length: ROWS }, () => [])
EmptyRows == [r \in 1 .. ROWS |-> <<>>]

EventBlock(s, e, t) == [start |-> s, end |-> e, title |-> t]

\* String.prototype.trim on a sequence of characters.
WhiteSpace == {" ", "\t"}

RECURSIVE trimLeft(_)
trimLeft(t) ==
  IF t = <<>> THEN <<>>
  ELSE IF Head(t) \in WhiteSpace THEN trimLeft(Tail(t))
  ELSE t

RECURSIVE trimRight(_)
trimRight(t) ==
  IF t = <<>> THEN <<>>
  ELSE IF t[Len(t)] \in WhiteSpace THEN trimRight(SubSeq(t, 1, Len(t) - 1))
  ELSE t

trim(t) == trimRight(trimLeft(t))

\* ------------------------------------------------------------ resolver
clamp(val, min, max) == Max(min, Min(max, val))

rangeOverlaps(aStart, aEnd, bStart, bEnd) == aStart <= bEnd /\ bStart <= aEnd

\* events[rowIdx].filter((_, i) => i !== excludeIndex), in row order.
RECURSIVE othersFrom(_, _, _)
othersFrom(row, excludeIndex, i) ==
  IF i >= Len(row) THEN <<>>
  ELSE IF i = excludeIndex THEN othersFrom(row, excludeIndex, i + 1)
  ELSE <<row[i + 1]>> \o othersFrom(row, excludeIndex, i + 1)

\* One iteration of the loop of allowedRangeFor over (s, e).
snapStep(r, o) ==
  IF rangeOverlaps(r.start, r.end, o.start, o.end)
  THEN IF r.end >= o.start /\ r.start <= o.start
       THEN [r EXCEPT !.end = o.start - 1]
       ELSE IF r.start <= o.end /\ r.end >= o.end
            THEN [r EXCEPT !.start = o.end + 1]
            ELSE r
  ELSE r

RECURSIVE snapLoop(_, _)
snapLoop(r, others) ==
  IF others = <<>> THEN r
  ELSE snapLoop(snapStep(r, Head(others)), Tail(others))

reclampNoClamp(r) ==
  [start |-> IF r.start > r.end THEN r.end ELSE r.start, end |-> r.end]

\* s = clamp(s), e = clamp(e), if (s > e) s = e, after the loop.
reclamp(r) ==
  LET s == clamp(r.start, 0, TOTAL_SLOTS - 1)
      e == clamp(r.end, 0, TOTAL_SLOTS - 1)
  IN  [start |-> IF s > e THEN e ELSE s, end |-> e]

normalizeNoSwap(start, end) ==
  [start |-> clamp(start, 0, TOTAL_SLOTS - 1), end |-> clamp(end, 0, TOTAL_SLOTS - 1)]

\* The proposal clamped into [0, TOTAL_SLOTS - 1] and swapped if reversed.
normalize(start, end) ==
  LET s == clamp(start, 0, TOTAL_SLOTS - 1)
      e == clamp(end, 0, TOTAL_SLOTS - 1)
  IN  IF s > e THEN [start |-> e, end |-> s] ELSE [start |-> s, end |-> e]

\* allowedRangeFor(rowIdx, excludeIndex, start, end), with the row it reads
\* (events[rowIdx] of the render's closure) passed as row.
allowedRangeFor(row, excludeIndex, start, end) ==
  reclamp(snapLoop(normalize(start, end), othersFrom(row, excludeIndex, 0)))

\* ------------------------------------------------------------ validation
\* A parsed start or end is an integer of the model: the typeof and
\* Number.isInteger tests on them pass, the test on the title is kept.
isValidEventBlock(ev) ==
  /\ ev.title # Undefined
  /\ ~(ev.start < 0 \/ ev.end < 0 \/ ev.start > ev.end)
  /\ ~(ev.end > TOTAL_SLOTS - 1)

\* [...r].sort((a, b) => a.start - b.start): a stable insertion by start.
RECURSIVE insertByStart(_, _)
insertByStart(ev, sorted) ==
  IF sorted = <<>> THEN <<ev>>
  ELSE IF Head(sorted).start <= ev.start
       THEN <<Head(sorted)>> \o insertByStart(ev, Tail(sorted))
       ELSE <<ev>> \o sorted

RECURSIVE sortByStart(_)
sortByStart(row) ==
  IF row = <<>> THEN <<>>
  ELSE insertByStart(row[Len(row)], sortByStart(SubSeq(row, 1, Len(row) - 1)))

sortedRowOkTouching(r) ==
  \A i \in 2 .. Len(r) : ~(r[i - 1].end > r[i].start)

sortedRowOk(r) ==
  \A i \in 2 .. Len(r) :
    ~(r[i - 1].end >= r[i].start /\ r[i - 1].end # r[i].start - 1)

validateRows(rows) ==
  /\ Len(rows) = ROWS
  /\ \A k \in 1 .. Len(rows) : \A j \in 1 .. Len(rows[k]) : isValidEventBlock(rows[k][j])
  /\ \A k \in 1 .. Len(rows) : sortedRowOk(sortByStart(rows[k]))

\* ------------------------------------------------------------ persistence
\* A raw string of localStorage or of an imported file: absent (getItem gives
\* null), text JSON.parse throws on, or the JSON text of a value.
Absent == [kind |-> "absent", value |-> [version |-> 0, savedAt |-> "", rows |-> <<>>]]
Garbage == [kind |-> "garbage", value |-> [version |-> 0, savedAt |-> "", rows |-> <<>>]]

\* new Date().toISOString(): the clock is read once, nothing reads savedAt back.
Now == "2026-01-01T00:00:00.000Z"

\* JSON.stringify of an EventBlock: an object of the properties whose value
\* is defined; a title that is undefined is left out of the text.
stringifyEventNoTitle(ev) == [start |-> ev.start, end |-> ev.end]

stringifyEvent(ev) ==
  IF ev.title = Undefined
  THEN [start |-> ev.start, end |-> ev.end]
  ELSE [start |-> ev.start, end |-> ev.end, title |-> ev.title]

\* The EventBlock read from a parsed object: a property the text does not
\* have reads as undefined.
parseEvent(obj) ==
  [start |-> obj.start, end |-> obj.end,
   title |-> IF "title" \in DOMAIN obj THEN obj.title ELSE Undefined]

JSONstringify(v) ==
  [kind |-> "json",
   value |-> [version |-> v.version, savedAt |-> v.savedAt,
              rows |-> [k \in 1 .. Len(v.rows) |->
                         [j \in 1 .. Len(v.rows[k]) |-> stringifyEvent(v.rows[k][j])]]]]
JSONparseThrows(raw) == raw.kind = "garbage"
JSONparse(raw) ==
  [version |-> raw.value.version, savedAt |-> raw.value.savedAt,
   rows |-> [k \in 1 .. Len(raw.value.rows) |->
              [j \in 1 .. Len(raw.value.rows[k]) |-> parseEvent(raw.value.rows[k][j])]]]

makeSchedule(rows) == [version |-> 1, savedAt |-> Now, rows |-> rows]

\* saveToStorage: the string written under STORAGE_KEY.
saveToStorage(rows) == JSONstringify(makeSchedule(rows))

\* loadFromStorage: [ok |-> FALSE] stands for null.
loadFromStorage(raw) ==
  IF raw.kind = "absent" \/ JSONparseThrows(raw)
  THEN [ok |-> FALSE, rows |-> <<>>]
  ELSE LET parsed == JSONparse(raw)
       IN  IF parsed.version # 1 \/ ~validateRows(parsed.rows)
           THEN [ok |-> FALSE, rows |-> <<>>]
           ELSE [ok |-> TRUE, rows |-> parsed.rows]

\* ------------------------------------------------------------ sample data
Standup == <<"S", "t", "a", "n", "d", "u", "p">>
Padded == <<" ", "A", " ">>
Blank == <<" ">>

RowMove == <<EventBlock(2, 6, Standup)>>
RowSnap == <<EventBlock(10, 15, Standup), EventBlock(20, 25, <<"B">>)>>
RowEdge == <<EventBlock(0, 3, <<"A">>), EventBlock(4, 4, <<"B">>), EventBlock(40, 43, <<"C">>)>>

FileOf(version, rows) ==
  JSONstringify([version |-> version, savedAt |-> Now, rows |-> rows])

\* What localStorage may hold when the component mounts.
StoredPayloads == {Absent, FileOf(1, <<RowMove, RowSnap, RowEdge>>)}

\* The files the user may pick for import.
ImportFiles ==
  { Garbage,
    FileOf(2, <<RowMove, <<>>, <<>>>>),
    FileOf(1, <<RowMove, <<>>>>),
    FileOf(1, <<<<EventBlock(0, 1, <<>>)>>, <<EventBlock(5, 6, Blank)>>, <<>>>>),
    FileOf(1, <<<<EventBlock(0, 5, <<"A">>), EventBlock(5, 8, <<"B">>)>>, <<>>, <<>>>>),
    FileOf(1, <<<<EventBlock(5, 3, <<"A">>)>>, <<>>, <<>>>>),
    FileOf(1, <<<<EventBlock(40, 44, <<"A">>)>>, <<>>, <<>>>>),
    FileOf(1, <<<<EventBlock(20, 25, <<"B">>), EventBlock(16, 19, <<"A">>)>>, <<>>, <<>>>>) }

\* What window.prompt returns: null (cancelled) or the text typed.
PromptResults ==
  {[cancelled |-> TRUE, text |-> <<>>]} \cup
  {[cancelled |-> FALSE, text |-> t] : t \in {<<>>, Blank, Padded, Standup}}

\* The slots the pointer visits in Spec (SpecGesture visits every slot).
PointerSlots == {0, 4, 9, 15, 22, 43}

\* ------------------------------------------------------------ state
VARIABLES
  events,         \* useState: the row collection, ROWS rows of EventBlocks
  isSelecting,    \* useState: create selection in progress
  selectRow,      \* useState: number | null
  selectStart,    \* useState: number | null
  selectCurrent,  \* useState: number | null
  drag,           \* useState: DragState
  storage,        \* localStorage[STORAGE_KEY]
  timerPending,   \* saveTimer.current names a timeout that has not fired
  timerRows,      \* the events captured by that timeout's closure
  crashed,        \* a render threw: the component tree is unmounted
  nops,           \* handler invocations so far (bounded exploration)
  hist,           \* history: the last operation and the current gesture
  probe           \* inputs and results of the resolver applied as a pure function

vars == <<events, isSelecting, selectRow, selectStart, selectCurrent, drag,
          storage, timerPending, timerRows, crashed, nops, hist, probe>>

NoDrag ==
  [mode |-> "none", row |-> Null, eventIndex |-> Null, anchorSlot |-> Null,
   initialStart |-> Null, initialEnd |-> Null]

Idle == ~isSelecting /\ drag.mode = "none"

NoPrompt == [cancelled |-> TRUE, text |-> <<>>]

InitHist(evs) ==
  [op |-> "init", row |-> Null, slot |-> Null, accepted |-> FALSE,
   asked |-> FALSE, prompt |-> NoPrompt, file |-> Absent,
   gRow |-> Null, gAnchor |-> Null, gCur |-> Null, gEvents |-> evs,
   gIdle |-> FALSE, gPure |-> FALSE]

NoProbe == [pc |-> "none", row |-> <<>>, ex |-> Null, s |-> 0, e |-> 0,
            out1 |-> [start |-> 0, end |-> 0], out2 |-> [start |-> 0, end |-> 0]]

\* The state after the first render and its effects: the mount effect has
\* loaded a valid stored schedule, the auto-save effect has armed its timer.
InitWith(raw, evs) ==
  /\ events = evs
  /\ isSelecting = FALSE
  /\ selectRow = Null
  /\ selectStart = Null
  /\ selectCurrent = Null
  /\ drag = NoDrag
  /\ storage = raw
  /\ timerPending = TRUE
  /\ timerRows = evs
  /\ crashed = FALSE
  /\ nops = 0
  /\ hist = InitHist(evs)

mountRows(raw) ==
  LET stored == loadFromStorage(raw)
  IN  IF stored.ok /\ validateRows(stored.rows) THEN stored.rows ELSE EmptyRows

Init ==
  /\ \E raw \in StoredPayloads : InitWith(raw, mountRows(raw))
  /\ probe = NoProbe

\* ------------------------------------------------------------ operations
\* One handler invocation, while the component is mounted.
Tick(bound) == ~crashed /\ nops < bound /\ nops' = nops + 1

\* setEvents(next): the auto-save effect (deps [events]) clears the pending
\* timeout and arms one that closes over the new events.
SetEvents(next) ==
  /\ events' = next
  /\ timerPending' = TRUE
  /\ timerRows' = next

KeepEvents == UNCHANGED <<events, timerPending, timerRows>>

\* History of an operation other than a pointer event.
HistOp(op, accepted) ==
  [hist EXCEPT !.op = op, !.row = Null, !.slot = Null, !.accepted = accepted,
               !.asked = FALSE, !.prompt = NoPrompt, !.file = Absent,
               !.gPure = FALSE]

\* events[rowIdx].findIndex(ev => slotIdx >= ev.start && slotIdx <= ev.end)
RECURSIVE findIndexFrom(_, _, _)
findIndexFrom(row, slotIdx, i) ==
  IF i >= Len(row) THEN Null
  ELSE IF slotIdx >= row[i + 1].start /\ slotIdx <= row[i + 1].end THEN i
  ELSE findIndexFrom(row, slotIdx, i + 1)

findEventAt(evs, rowIdx, slotIdx) == findIndexFrom(evs[rowIdx + 1], slotIdx, 0)

\* The mode onMouseDownCell picks for a hit on evt at slotIdx.
dragModeFor(evt, slotIdx) ==
  IF evt.start = evt.end THEN "move"
  ELSE IF slotIdx = evt.start THEN "resize-left"
  ELSE IF slotIdx = evt.end THEN "resize-right"
  ELSE "move"

onMouseDownCell(rowIdx, slotIdx) ==
  LET evtIndex == findEventAt(events, rowIdx, slotIdx)
  IN  /\ IF evtIndex # Null
         THEN LET evt == events[rowIdx + 1][evtIndex + 1]
              IN  /\ drag' = [mode |-> dragModeFor(evt, slotIdx), row |-> rowIdx,
                              eventIndex |-> evtIndex, anchorSlot |-> slotIdx,
                              initialStart |-> evt.start, initialEnd |-> evt.end]
                  /\ UNCHANGED <<isSelecting, selectRow, selectStart, selectCurrent>>
         ELSE /\ isSelecting' = TRUE
              /\ selectRow' = rowIdx
              /\ selectStart' = slotIdx
              /\ selectCurrent' = slotIdx
              /\ UNCHANGED drag
      /\ KeepEvents
      /\ hist' = [hist EXCEPT !.op = "down", !.row = rowIdx, !.slot = slotIdx,
                              !.accepted = FALSE, !.asked = FALSE, !.prompt = NoPrompt,
                              !.file = Absent,
                              !.gRow = rowIdx, !.gAnchor = slotIdx, !.gCur = slotIdx,
                              !.gEvents = events, !.gIdle = Idle, !.gPure = TRUE]
      /\ UNCHANGED <<storage, crashed, probe>>

moveRangeTruncated(d, slotIdx) ==
  [start |-> clamp(d.initialStart + (slotIdx - d.anchorSlot), 0, TOTAL_SLOTS - 1),
   end |-> clamp(d.initialEnd + (slotIdx - d.anchorSlot), 0, TOTAL_SLOTS - 1)]

moveRangeNoAnchor(d, slotIdx) ==
  LET len == d.initialEnd - d.initialStart
      s0 == clamp(slotIdx, 0, TOTAL_SLOTS - 1 - len)
  IN  [start |-> s0, end |-> s0 + len]

\* The range the move branch proposes: the snapshot translated by the offset
\* and shifted as a whole back into [0, TOTAL_SLOTS - 1].
moveRange(d, slotIdx) ==
  LET len == d.initialEnd - d.initialStart
      s0 == d.initialStart + (slotIdx - d.anchorSlot)
      e0 == s0 + len
      s1 == IF s0 < 0 THEN 0 ELSE s0
      e1 == IF s0 < 0 THEN e0 - s0 ELSE e0
      s2 == IF e1 > TOTAL_SLOTS - 1 THEN s1 - (e1 - (TOTAL_SLOTS - 1)) ELSE s1
      e2 == IF e1 > TOTAL_SLOTS - 1 THEN TOTAL_SLOTS - 1 ELSE e1
  IN  [start |-> s2, end |-> e2]

resizeLeftRange(d, slotIdx) ==
  [start |-> Min(slotIdx, d.initialEnd), end |-> d.initialEnd]

resizeRightRangeNoMax(d, slotIdx) ==
  [start |-> d.initialStart, end |-> slotIdx]

resizeRightRange(d, slotIdx) ==
  [start |-> d.initialStart, end |-> Max(slotIdx, d.initialStart)]

proposedRange(d, slotIdx) ==
  IF d.mode = "move" THEN moveRange(d, slotIdx)
  ELSE IF d.mode = "resize-left" THEN resizeLeftRange(d, slotIdx)
  ELSE resizeRightRange(d, slotIdx)

\* applyTempUpdate's updater on prev.  An eventIdx at the end of the row adds
\* { start, end } with no title ({ ...undefined, start, end }).
applyTempUpdate(prev, rowIdx, eventIdx, start, end) ==
  LET row == prev[rowIdx + 1]
  IN  IF eventIdx < Len(row)
      THEN [prev EXCEPT ![rowIdx + 1][eventIdx + 1] =
              EventBlock(start, end, row[eventIdx + 1].title)]
      ELSE [prev EXCEPT ![rowIdx + 1] = Append(row, EventBlock(start, end, Undefined))]

\* An eventIdx past the end of the row leaves a hole in the array: the next
\* render's findIndex reads ev.start of undefined and throws.
tempUpdateThrows(prev, rowIdx, eventIdx) == eventIdx > Len(prev[rowIdx + 1])

dragApplies(rowIdx) ==
  /\ drag.mode # "none"
  /\ drag.row = rowIdx
  /\ drag.eventIndex # Null
  /\ drag.initialStart # Null
  /\ drag.initialEnd # Null
  /\ drag.anchorSlot # Null

onMouseEnterCell(rowIdx, slotIdx) ==
  /\ hist' = [hist EXCEPT !.op = "enter", !.row = rowIdx, !.slot = slotIdx,
                          !.accepted = FALSE, !.asked = FALSE, !.prompt = NoPrompt,
                              !.file = Absent,
                          !.gCur = IF rowIdx = hist.gRow THEN slotIdx ELSE @,
                          !.gPure = @ /\ rowIdx = hist.gRow /\ hist.op \in {"down", "enter"}]
  /\ UNCHANGED <<isSelecting, selectRow, selectStart, drag, storage, probe>>
  /\ IF isSelecting /\ rowIdx = selectRow
     THEN /\ selectCurrent' = slotIdx
          /\ KeepEvents
          /\ UNCHANGED crashed
     ELSE /\ UNCHANGED selectCurrent
          /\ IF dragApplies(rowIdx) /\ drag.mode \in {"move", "resize-left", "resize-right"}
             THEN LET p == proposedRange(drag, slotIdx)
                      allowed == allowedRangeFor(events[rowIdx + 1], drag.eventIndex,
                                                 p.start, p.end)
                  IN  IF tempUpdateThrows(events, rowIdx, drag.eventIndex)
                      THEN /\ crashed' = TRUE
                           /\ timerPending' = FALSE
                           /\ UNCHANGED <<events, timerRows>>
                      ELSE /\ SetEvents(applyTempUpdate(events, rowIdx, drag.eventIndex,
                                                        allowed.start, allowed.end))
                           /\ UNCHANGED crashed
             ELSE /\ KeepEvents
                  /\ UNCHANGED crashed

titleGivenNoTrim(p) == ~p.cancelled /\ p.text # <<>>

\* title && title.trim()
titleGiven(p) == ~p.cancelled /\ p.text # <<>> /\ trim(p.text) # <<>>

selectionComplete ==
  isSelecting /\ selectRow # Null /\ selectStart # Null /\ selectCurrent # Null

pushSelectionFromAnchor(prev, title) ==
  [prev EXCEPT ![selectRow + 1] =
     Append(@, EventBlock(selectStart, selectCurrent, trim(title)))]

pushSelection(prev, title) ==
  [prev EXCEPT ![selectRow + 1] =
     Append(@, EventBlock(Min(selectStart, selectCurrent),
                          Max(selectStart, selectCurrent), trim(title)))]

resetDragKept == drag

resetDrag == NoDrag

handleMouseUp(p) ==
  /\ IF selectionComplete /\ titleGiven(p)
     THEN SetEvents(pushSelection(events, p.text))
     ELSE KeepEvents
  /\ isSelecting' = FALSE
  /\ selectRow' = Null
  /\ selectStart' = Null
  /\ selectCurrent' = Null
  /\ drag' = resetDrag
  /\ hist' = [hist EXCEPT !.op = "up", !.row = Null, !.slot = Null, !.file = Absent,
                          !.accepted = FALSE, !.asked = selectionComplete,
                          !.prompt = IF selectionComplete THEN p ELSE NoPrompt,
                          !.gPure = @ /\ hist.op \in {"down", "enter"}]
  /\ UNCHANGED <<storage, crashed, probe>>

\* The prompt is shown only to a complete selection: without one its result
\* is not an input of the handler.
MouseUpInputs == IF selectionComplete THEN PromptResults ELSE {NoPrompt}

clearRow(rowIdx, confirmed) ==
  /\ IF confirmed
     THEN SetEvents([events EXCEPT ![rowIdx + 1] = <<>>])
     ELSE KeepEvents
  /\ hist' = HistOp("clearRow", confirmed)
  /\ UNCHANGED <<isSelecting, selectRow, selectStart, selectCurrent, drag,
                 storage, crashed, probe>>

\* copy.splice(eventIdx, 1)
splice1(row, eventIdx) ==
  SubSeq(row, 1, eventIdx) \o SubSeq(row, eventIdx + 2, Len(row))

\* The delete button of event eventIdx is rendered in the cell of its start
\* slot when findEventAt gives that event there.
deleteShown(rowIdx, eventIdx) ==
  /\ eventIdx < Len(events[rowIdx + 1])
  /\ findEventAt(events, rowIdx, events[rowIdx + 1][eventIdx + 1].start) = eventIdx

removeEvent(rowIdx, eventIdx) ==
  /\ deleteShown(rowIdx, eventIdx)
  /\ SetEvents([events EXCEPT ![rowIdx + 1] = splice1(@, eventIdx)])
  /\ hist' = HistOp("delete", TRUE)
  /\ UNCHANGED <<isSelecting, selectRow, selectStart, selectCurrent, drag,
                 storage, crashed, probe>>

handleClearAll(confirmed) ==
  /\ IF confirmed THEN SetEvents(EmptyRows) ELSE KeepEvents
  /\ hist' = HistOp("clearAll", confirmed)
  /\ UNCHANGED <<isSelecting, selectRow, selectStart, selectCurrent, drag,
                 storage, crashed, probe>>

handleManualSave ==
  /\ storage' = saveToStorage(events)
  /\ KeepEvents
  /\ hist' = HistOp("save", TRUE)
  /\ UNCHANGED <<isSelecting, selectRow, selectStart, selectCurrent, drag,
                 crashed, probe>>

\* A load that clears the rows when the stored payload is refused.
keepOnRefusalCleared == SetEvents(EmptyRows)

\* Neither branch of a refused load or import calls setEvents.
keepOnRefusal == KeepEvents

handleManualLoad ==
  LET stored == loadFromStorage(storage)
      ok == stored.ok /\ validateRows(stored.rows)
  IN  /\ IF ok THEN SetEvents(stored.rows) ELSE keepOnRefusal
      /\ hist' = [HistOp("load", ok) EXCEPT !.file = storage]
      /\ UNCHANGED <<isSelecting, selectRow, selectStart, selectCurrent, drag,
                     storage, crashed, probe>>

\* reader.onload of handleImportFile, for the text of the chosen file.
importAccepts(file) ==
  /\ ~JSONparseThrows(file)
  /\ JSONparse(file).version = 1
  /\ validateRows(JSONparse(file).rows)

handleImportFile(file, confirmed) ==
  LET ok == importAccepts(file) /\ confirmed
  IN  /\ IF ok THEN SetEvents(JSONparse(file).rows) ELSE keepOnRefusal
      /\ hist' = [HistOp("import", ok) EXCEPT !.file = file]
      /\ UNCHANGED <<isSelecting, selectRow, selectStart, selectCurrent, drag,
                     storage, crashed, probe>>

\* The auto-save timeout fires: saveToStorage(events) of its closure.
autoSaveFires ==
  /\ timerPending
  /\ storage' = saveToStorage(timerRows)
  /\ timerPending' = FALSE
  /\ hist' = HistOp("timer", TRUE)
  /\ UNCHANGED <<events, timerRows, isSelecting, selectRow, selectStart,
                 selectCurrent, drag, crashed, probe>>

\* ------------------------------------------------------------ specifications
Next ==
  \/ \E r \in RowIdxs, x \in PointerSlots : Tick(MaxOps) /\ onMouseDownCell(r, x)
  \/ \E r \in RowIdxs, x \in PointerSlots : Tick(MaxOps) /\ onMouseEnterCell(r, x)
  \/ \E p \in MouseUpInputs : Tick(MaxOps) /\ handleMouseUp(p)
  \/ \E r \in RowIdxs : \E i \in 0 .. (Len(events[r + 1]) - 1) :
       Tick(MaxOps) /\ removeEvent(r, i)
  \/ \E r \in RowIdxs, c \in BOOLEAN : Tick(MaxOps) /\ clearRow(r, c)
  \/ \E c \in BOOLEAN : Tick(MaxOps) /\ handleClearAll(c)
  \/ Tick(MaxOps) /\ handleManualSave
  \/ Tick(MaxOps) /\ handleManualLoad
  \/ \E f \in ImportFiles, c \in BOOLEAN : Tick(MaxOps) /\ handleImportFile(f, c)
  \/ Tick(MaxOps) /\ autoSaveFires

Spec == Init /\ [][Next]_vars

\* One gesture on row 0 of a loaded schedule: a pointer-down on any slot,
\* then pointer-enters on any slot of that row or on a slot of the next row,
\* ended by a pointer-up.
GestureRows ==
  { <<>>,
    RowMove,
    RowSnap,
    <<EventBlock(20, 25, <<"B">>), EventBlock(10, 15, Standup)>>,
    <<EventBlock(16, 19, <<"A">>), EventBlock(20, 25, <<"B">>)>>,
    <<EventBlock(5, 8, <<"A">>), EventBlock(30, 35, <<"C">>), EventBlock(20, 25, <<"B">>)>>,
    RowEdge }

InitGesture ==
  \E row \in GestureRows :
    LET raw == FileOf(1, <<row, <<>>, <<>>>>)
    IN  InitWith(raw, mountRows(raw)) /\ probe = NoProbe

NextGesture ==
  \/ \E x \in AllSlots : Tick(MaxGestureOps) /\ nops = 0 /\ onMouseDownCell(0, x)
  \/ \E x \in AllSlots :
       Tick(MaxGestureOps) /\ hist.op \in {"down", "enter"} /\ onMouseEnterCell(0, x)
  \/ Tick(MaxGestureOps) /\ hist.op \in {"down", "enter"} /\ onMouseEnterCell(1, 0)
  \/ \E p \in MouseUpInputs :
       Tick(MaxGestureOps) /\ hist.op \in {"down", "enter"} /\ handleMouseUp(p)

SpecGesture == InitGesture /\ [][NextGesture]_vars

\* Successive gestures on one row: pointer-downs, pointer-enters and
\* pointer-ups over the first slots of row 0, which starts as {0, 3}, {4, 4},
\* {40, 43}.
DriftSlots == 1 .. 4

InitDrift ==
  LET raw == FileOf(1, <<RowEdge, <<>>, <<>>>>)
  IN  InitWith(raw, mountRows(raw)) /\ probe = NoProbe

NextDrift ==
  \/ \E x \in DriftSlots : Tick(MaxDriftOps) /\ onMouseDownCell(0, x)
  \/ \E x \in DriftSlots : Tick(MaxDriftOps) /\ onMouseEnterCell(0, x)
  \/ \E p \in MouseUpInputs : Tick(MaxDriftOps) /\ handleMouseUp(p)

SpecDrift == InitDrift /\ [][NextDrift]_vars

\* The resolver as a pure function: every row of at most MaxResolveLen of the
\* sample intervals (overlapping rows included), every excludeIndex, and
\* proposals around them, out of range and reversed ones included.
ResolveIntervals ==
  { EventBlock(0, 3, <<"A">>), EventBlock(4, 4, <<"B">>), EventBlock(5, 10, <<"C">>),
    EventBlock(8, 12, <<"D">>), EventBlock(40, 43, <<"E">>) }

ResolveRows ==
  UNION { [1 .. n -> ResolveIntervals] : n \in 0 .. MaxResolveLen }

ProposalSlots == (-1 .. 13) \cup (39 .. TOTAL_SLOTS)

InitResolve ==
  \E row \in ResolveRows, ex \in {Null} \cup (0 .. MaxResolveLen - 1),
     s \in ProposalSlots, e \in ProposalSlots :
    /\ InitWith(Absent, EmptyRows)
    /\ probe = [pc |-> "in", row |-> row, ex |-> ex, s |-> s, e |-> e,
                out1 |-> [start |-> 0, end |-> 0], out2 |-> [start |-> 0, end |-> 0]]

NonProbe == <<events, isSelecting, selectRow, selectStart, selectCurrent, drag,
              storage, timerPending, timerRows, crashed, nops, hist>>

\* resolve(row, excludeIndex, s, e)
ResolveOnce ==
  /\ probe.pc = "in"
  /\ probe' = [probe EXCEPT !.pc = "once",
                 !.out1 = allowedRangeFor(probe.row, probe.ex, probe.s, probe.e)]
  /\ UNCHANGED NonProbe

\* resolve(row, excludeIndex, s', e') on the result of the first call
ResolveAgain ==
  /\ probe.pc = "once"
  /\ probe' = [probe EXCEPT !.pc = "twice",
                 !.out2 = allowedRangeFor(probe.row, probe.ex,
                                          probe.out1.start, probe.out1.end)]
  /\ UNCHANGED NonProbe

NextResolve == ResolveOnce \/ ResolveAgain

SpecResolve == InitResolve /\ [][NextResolve]_vars

\* Deserialization as a pure function: a payload drawn from a bounded set is
\* handed to loadFromStorage and to the import handler's checks.
ValidateIntervals ==
  { EventBlock(0, 5, <<"A">>), EventBlock(5, 8, <<"B">>), EventBlock(6, 6, <<"C">>),
    EventBlock(16, 19, <<"D">>), EventBlock(20, 25, <<"E">>), EventBlock(43, 43, <<"F">>),
    EventBlock(5, 3, <<"G">>), EventBlock(40, 44, <<"H">>), EventBlock(-1, 2, <<"I">>) }

ValidateRows ==
  UNION { [1 .. n -> ValidateIntervals] : n \in 0 .. MaxValidateLen }

OtherRows ==
  { <<>>, <<EventBlock(20, 25, <<"E">>), EventBlock(16, 19, <<"D">>)>>,
    <<EventBlock(0, 5, <<"A">>), EventBlock(5, 8, <<"B">>)>> }

ValidateRowLists ==
  UNION { { <<r0, r1>>, <<r0, r1, <<>>>>, <<<<>>, r1, r0>>, <<r0, r1, <<>>, <<>>>> } :
          r0 \in ValidateRows, r1 \in OtherRows }

ValidatePayloads ==
  {Absent, Garbage} \cup
  { FileOf(v, rows) : v \in {1, 2}, rows \in ValidateRowLists }

InitValidate ==
  \E file \in ValidatePayloads :
    /\ InitWith(Absent, EmptyRows)
    /\ probe = [pc |-> "in", file |-> file, accepted |-> FALSE, rows |-> <<>>]

\* loadFromStorage() with the payload under STORAGE_KEY
ValidateStored ==
  /\ probe.pc = "in"
  /\ probe' = [probe EXCEPT !.pc = "loaded",
                 !.accepted = loadFromStorage(probe.file).ok,
                 !.rows = loadFromStorage(probe.file).rows]
  /\ UNCHANGED NonProbe

\* reader.onload of handleImportFile up to the confirmation
ValidateImported ==
  /\ probe.pc = "in"
  /\ probe' = [probe EXCEPT !.pc = "imported",
                 !.accepted = importAccepts(probe.file),
                 !.rows = IF importAccepts(probe.file)
                          THEN JSONparse(probe.file).rows ELSE <<>>]
  /\ UNCHANGED NonProbe

NextValidate == ValidateStored \/ ValidateImported

SpecValidate == InitValidate /\ [][NextValidate]_vars

\* Serialization followed by deserialization, as pure functions of the rows.
RoundTripIntervals ==
  ValidateIntervals \cup
  { EventBlock(26, 28, Padded), EventBlock(30, 31, Undefined), EventBlock(33, 34, Blank) }

RoundTripRows ==
  UNION { [1 .. n -> RoundTripIntervals] : n \in 0 .. MaxValidateLen }

RoundTripRowLists ==
  UNION { { <<r0, r1>>, <<r0, r1, <<>>>>, <<r1, <<>>, r0>> } :
          r0 \in RoundTripRows, r1 \in OtherRows }

InitRoundTrip ==
  \E rows \in RoundTripRowLists :
    /\ InitWith(Absent, EmptyRows)
    /\ probe = [pc |-> "in", rows |-> rows, text |-> Absent,
                accepted |-> FALSE, out |-> <<>>]

\* saveToStorage(rows)
Serialize ==
  /\ probe.pc = "in"
  /\ probe' = [probe EXCEPT !.pc = "saved", !.text = saveToStorage(probe.rows)]
  /\ UNCHANGED NonProbe

\* loadFromStorage() of the text written
Deserialize ==
  /\ probe.pc = "saved"
  /\ probe' = [probe EXCEPT !.pc = "read",
                 !.accepted = loadFromStorage(probe.text).ok,
                 !.out = loadFromStorage(probe.text).rows]
  /\ UNCHANGED NonProbe

NextRoundTrip == Serialize \/ Deserialize

SpecRoundTrip == InitRoundTrip /\ [][NextRoundTrip]_vars

\* ------------------------------------------------------------ properties
Intervals(row) == {row[i] : i \in 1 .. Len(row)}

NoOverlapRow(row) ==
  \A i \in 1 .. Len(row), j \in 1 .. Len(row) :
    i # j => ~(row[i].start <= row[j].end /\ row[j].start <= row[i].end)

\* C1: no row ever holds two distinct intervals A, B with A.start <= B.end
\* and B.start <= A.end.
C1_NonOverlap == \A r \in 1 .. ROWS : NoOverlapRow(events[r])

\* C2: every interval of every row satisfies 0 <= start <= end < TOTAL_SLOTS.
C2_Bounds ==
  \A r \in 1 .. ROWS : \A ev \in Intervals(events[r]) :
    0 <= ev.start /\ ev.start <= ev.end /\ ev.end < TOTAL_SLOTS

\* A drag has just been carried to the last slot and the dragged interval
\* ends there.
C2_Witness ==
  /\ hist.op = "enter"
  /\ hist.slot = TOTAL_SLOTS - 1
  /\ drag.mode # "none"
  /\ drag.row = hist.row
  /\ drag.eventIndex < Len(events[drag.row + 1])
  /\ events[drag.row + 1][drag.eventIndex + 1].end = TOTAL_SLOTS - 1

\* The gesture in progress began from idle on an empty slot and has seen only
\* pointer-enters on its row since (and at most the pointer-up that ends it).
CreateGesture ==
  /\ hist.gIdle
  /\ hist.gPure
  /\ findEventAt(hist.gEvents, hist.gRow, hist.gAnchor) = Null

\* C3: a create gesture (down on empty slot a of row R from idle, enters on R
\* ending at c, up with a title whose trimmed form t is not empty) appends
\* exactly {min(a, c), max(a, c), t} to row R and changes nothing else; the
\* rows are not changed before the pointer-up.
C3_CreateGesture ==
  CreateGesture =>
    /\ hist.op \in {"down", "enter"} => events = hist.gEvents
    /\ (hist.op = "up" /\ ~hist.prompt.cancelled /\ trim(hist.prompt.text) # <<>>) =>
         events = [hist.gEvents EXCEPT ![hist.gRow + 1] =
                     Append(@, EventBlock(Min(hist.gAnchor, hist.gCur),
                                          Max(hist.gAnchor, hist.gCur),
                                          trim(hist.prompt.text)))]

\* Empty row, down at 4, enter at 9, up with "Standup": the row is {4, 9, "Standup"}.
C3_Witness ==
  /\ CreateGesture
  /\ hist.op = "up"
  /\ hist.gEvents[hist.gRow + 1] = <<>>
  /\ hist.gAnchor = 4
  /\ hist.gCur = 9
  /\ hist.prompt.text = Standup
  /\ events[hist.gRow + 1] = <<EventBlock(4, 9, Standup)>>

\* The move scenario: the row held the single interval {2, 6}, the gesture
\* began from idle at slot 4 and its last pointer-enter was at slot 40.
MoveScenario ==
  /\ hist.gEvents[1] = RowMove
  /\ hist.gIdle
  /\ hist.gPure
  /\ hist.gRow = 0
  /\ hist.gAnchor = 4
  /\ hist.op = "enter"
  /\ hist.slot = 40

\* C4 as stated: the move scenario leaves the interval as {39, 43}.
C4_Original == MoveScenario => events[1] = <<EventBlock(39, 43, Standup)>>

\* C4 as amended: the move scenario is a moving gesture and leaves the
\* interval as {38, 42} (the snapshot translated by 40 - 4, which fits).
C4_MoveScenario ==
  MoveScenario => drag.mode = "move" /\ events[1] = <<EventBlock(38, 42, Standup)>>

C4_Witness == MoveScenario /\ events[1][1].start = 38 /\ events[1][1].end = 42

\* The other intervals of the gesture's row that start to the right of s0.
RightOf(row, idx, s0) ==
  {row[i].start : i \in {k \in 1 .. Len(row) : k # idx + 1 /\ row[k].start > s0}}

SetMin(S) == CHOOSE m \in S : \A n \in S : m <= n

\* A resizing-right gesture begun from idle on a non-overlapping row 0, whose
\* last pointer-enter was on that row.
ResizeRightGesture ==
  /\ hist.gIdle
  /\ hist.gPure
  /\ hist.gRow = 0
  /\ hist.op = "enter"
  /\ drag.mode = "resize-right"
  /\ NoOverlapRow(hist.gEvents[1])

\* C5: after a pointer-enter at x in a resizing-right gesture on I with
\* snapshot (s0, e0), I.start = s0 and I.end = min(max(x, s0), N.start - 1)
\* for the nearest other interval N to the right, max(x, s0) without one.
C5_ResizeRightSnap ==
  ResizeRightGesture =>
    LET idx == drag.eventIndex
        s0 == hist.gEvents[1][idx + 1].start
        I == events[1][idx + 1]
        x == hist.slot
        right == RightOf(hist.gEvents[1], idx, s0)
    IN  /\ drag.initialStart = s0
        /\ I.start = s0
        /\ I.end = IF right = {} THEN Max(x, s0)
                   ELSE Min(Max(x, s0), SetMin(right) - 1)

\* Row {10, 15}, {20, 25}: the first interval's right edge dragged to 22 ends at 19.
C5_Witness ==
  /\ ResizeRightGesture
  /\ hist.gEvents[1] = RowSnap
  /\ drag.eventIndex = 0
  /\ hist.slot = 22
  /\ events[1][1].start = 10
  /\ events[1][1].end = 19

\* C6: after a pointer-up, in whatever state it was delivered and whatever
\* the prompt returned, the mode is none, isSelecting is false and every
\* select and drag field is null.
C6_PointerUpIdle ==
  hist.op = "up" =>
    /\ isSelecting = FALSE
    /\ selectRow = Null
    /\ selectStart = Null
    /\ selectCurrent = Null
    /\ drag.mode = "none"
    /\ drag.row = Null
    /\ drag.eventIndex = Null
    /\ drag.anchorSlot = Null
    /\ drag.initialStart = Null
    /\ drag.initialEnd = Null

\* A pointer-up has ended a drag of an interval (a gesture begun on an
\* occupied slot, with at least one pointer-enter on its row).
C6_Witness ==
  /\ hist.op = "up"
  /\ hist.gPure
  /\ findEventAt(hist.gEvents, hist.gRow, hist.gAnchor) # Null
  /\ hist.gCur # hist.gAnchor
  /\ Idle

\* C7: the create-selection flag is never set while the drag mode is move,
\* resize-left or resize-right.
C7_OneActiveState ==
  ~(isSelecting /\ drag.mode \in {"move", "resize-left", "resize-right"})

\* The gesture began on an empty slot (a selecting gesture) and has seen only
\* pointer-enters on its row since, and at most the pointer-up that ends it.
SelectingGesture ==
  /\ hist.gPure
  /\ findEventAt(hist.gEvents, hist.gRow, hist.gAnchor) = Null

\* C8: a pointer-up that ends a selecting gesture with no title (prompt
\* cancelled, empty or only white space) leaves the rows as they were when
\* the gesture began.
C8_NoTitleNoInterval ==
  (/\ hist.op = "up"
   /\ hist.asked
   /\ SelectingGesture
   /\ (hist.prompt.cancelled \/ trim(hist.prompt.text) = <<>>))
  => events = hist.gEvents

\* A selection over several slots was ended with a title of white space.
C8_Witness ==
  /\ hist.op = "up"
  /\ hist.asked
  /\ SelectingGesture
  /\ ~hist.prompt.cancelled
  /\ hist.prompt.text = Blank
  /\ hist.gCur # hist.gAnchor
  /\ events = hist.gEvents

\* C9: resolving the result of the resolver again, against the same row and
\* excludeIndex, gives the same result.
C9_ResolverIdempotent == probe.pc = "twice" => probe.out2 = probe.out1

\* C10: no payload accepted by load or import puts an interval whose trimmed
\* title is empty into the rows.
C10_AcceptedTitlesNonEmpty ==
  (hist.op \in {"load", "import"} /\ hist.accepted) =>
    \A r \in 1 .. ROWS : \A ev \in Intervals(events[r]) : trim(ev.title) # <<>>

\* What the payload rules ask of a raw text, stated on the parsed value and
\* without the sort: version 1, ROWS rows, every interval within the day with
\* start <= end, no two intervals of a row sharing a slot.
PayloadWellFormed(raw) ==
  /\ raw.kind = "json"
  /\ JSONparse(raw).version = 1
  /\ Len(JSONparse(raw).rows) = ROWS
  /\ \A k \in 1 .. Len(JSONparse(raw).rows) :
       /\ \A ev \in Intervals(JSONparse(raw).rows[k]) :
            0 <= ev.start /\ ev.start <= ev.end /\ ev.end <= TOTAL_SLOTS - 1
       /\ NoOverlapRow(JSONparse(raw).rows[k])

PayloadAccepted(raw) ==
  /\ raw.kind = "json"
  /\ JSONparse(raw).version = 1
  /\ validateRows(JSONparse(raw).rows)

\* C12: a load or an import is all or nothing. A step that hands a payload
\* failing the parse, the version check or the validation to either of them
\* leaves the rows as they were; a step that hands a valid payload to load,
\* or to import with the confirmation given, makes the rows the payload's
\* rows.
C12_AllOrNothing ==
  [][ hist'.op \in {"load", "import"} =>
        /\ ~PayloadAccepted(hist'.file) => events' = events /\ ~hist'.accepted
        /\ hist'.accepted => events' = JSONparse(hist'.file).rows
        /\ (PayloadAccepted(hist'.file) /\ hist'.op = "load") => hist'.accepted ]_vars

C12_Witness ==
  /\ hist.op = "import"
  /\ ~hist.accepted
  /\ hist.file = FileOf(1, <<<<EventBlock(0, 5, <<"A">>), EventBlock(5, 8, <<"B">>)>>, <<>>, <<>>>>)
  /\ events # EmptyRows

\* The row invariants: ROWS rows, every interval within the day with
\* start <= end, no two intervals of a row sharing a slot, every title a
\* string that is not empty once trimmed.
RowInvariants(rows) ==
  /\ Len(rows) = ROWS
  /\ \A k \in 1 .. Len(rows) :
       /\ \A ev \in Intervals(rows[k]) :
            /\ 0 <= ev.start /\ ev.start <= ev.end /\ ev.end <= TOTAL_SLOTS - 1
            /\ ev.title # Undefined /\ trim(ev.title) # <<>>
       /\ NoOverlapRow(rows[k])

\* C13: rows that satisfy the row invariants, serialized and then
\* deserialized, are accepted and come back equal to the original: the same
\* intervals with the same start, end and title, in the same order in each row.
C13_RoundTrip ==
  (probe.pc = "read" /\ RowInvariants(probe.rows)) =>
    (probe.accepted /\ probe.out = probe.rows)

C13_Witness ==
  /\ probe.pc = "read"
  /\ RowInvariants(probe.rows)
  /\ probe.rows[1] = <<EventBlock(26, 28, Padded), EventBlock(16, 19, <<"D">>)>>
  /\ probe.out = probe.rows

\* The resolver has been applied to the probe's row and proposal.
Resolved == probe.pc \in {"once", "twice"}

\* The other intervals of the probe's row (all but excludeIndex).
ProbeOthers == othersFrom(probe.row, probe.ex, 0)

\* C14: the resolver only narrows. With (ns, ne) the proposal clamped into
\* [0, TOTAL_SLOTS - 1] and swapped if reversed, the returned range satisfies
\* ns <= finalStart <= finalEnd <= ne.
C14_ResolverNarrows ==
  Resolved =>
    /\ normalize(probe.s, probe.e).start <= probe.out1.start
    /\ probe.out1.start <= probe.out1.end
    /\ probe.out1.end <= normalize(probe.s, probe.e).end

\* The supported configuration: the row is non-overlapping, excludeIndex names
\* the edited interval, and at most one other interval lies on each side of it.
SupportedConfiguration ==
  /\ NoOverlapRow(probe.row)
  /\ probe.ex # Null /\ probe.ex < Len(probe.row)
  /\ Cardinality({o \in Intervals(ProbeOthers) :
                    o.end < probe.row[probe.ex + 1].start}) <= 1
  /\ Cardinality({o \in Intervals(ProbeOthers) :
                    o.start > probe.row[probe.ex + 1].end}) <= 1

\* C15: in the supported configuration the range the resolver returns
\* overlaps no other interval of the row, whatever the proposal.
C15_ResolverOverlapFree ==
  (Resolved /\ SupportedConfiguration) =>
    \A o \in Intervals(ProbeOthers) :
      ~rangeOverlaps(probe.out1.start, probe.out1.end, o.start, o.end)

\* The ends of the other intervals of the gesture's row that lie left of e0.
LeftOf(row, idx, e0) ==
  {row[i].end : i \in {k \in 1 .. Len(row) : k # idx + 1 /\ row[k].end < e0}}

SetMax(S) == CHOOSE m \in S : \A n \in S : m >= n

\* A resizing-left gesture begun from idle on a non-overlapping row 0, whose
\* last pointer-enter was on that row.
ResizeLeftGesture ==
  /\ hist.gIdle
  /\ hist.gPure
  /\ hist.gRow = 0
  /\ hist.op = "enter"
  /\ drag.mode = "resize-left"
  /\ NoOverlapRow(hist.gEvents[1])

\* C16: after a pointer-enter at x in a resizing-left gesture on I with
\* snapshot (s0, e0), I.end = e0 and I.start = max(min(x, e0), L.end + 1) for
\* the nearest other interval L to the left, min(x, e0) without one.
C16_ResizeLeftKeepsRightEdge ==
  ResizeLeftGesture =>
    LET idx == drag.eventIndex
        e0 == hist.gEvents[1][idx + 1].end
        I == events[1][idx + 1]
        x == hist.slot
        left == LeftOf(hist.gEvents[1], idx, e0)
    IN  /\ drag.initialEnd = e0
        /\ I.end = e0
        /\ I.start = IF left = {} THEN Min(x, e0)
                     ELSE Max(Min(x, e0), SetMax(left) + 1)

\* A moving gesture begun from idle on the only interval of row 0, whose last
\* pointer-enter was on that row.
LoneMoveGesture ==
  /\ hist.gIdle
  /\ hist.gPure
  /\ hist.gRow = 0
  /\ hist.op = "enter"
  /\ drag.mode = "move"
  /\ Len(hist.gEvents[1]) = 1

\* C17: after a pointer-enter at x in a moving gesture with snapshot (s0, e0)
\* and anchor a, in a row with no other interval, the interval keeps its
\* length and lies within the day; its start is s0 + (x - a) when that
\* translation fits, otherwise the interval touches the bound it exceeded.
C17_MoveKeepsLength ==
  LoneMoveGesture =>
    LET s0 == hist.gEvents[1][1].start
        e0 == hist.gEvents[1][1].end
        off == hist.slot - hist.gAnchor
        I == events[1][1]
    IN  /\ Len(events[1]) = 1
        /\ I.end - I.start = e0 - s0
        /\ 0 <= I.start /\ I.end <= TOTAL_SLOTS - 1
        /\ I.start = IF s0 + off < 0 THEN 0
                     ELSE IF e0 + off > TOTAL_SLOTS - 1
                          THEN TOTAL_SLOTS - 1 - (e0 - s0)
                          ELSE s0 + off

\* {2, 6} grabbed at 4 and dragged to slot 0 is shifted to {0, 4}.
C17_Witness ==
  /\ LoneMoveGesture
  /\ hist.gEvents[1] = RowMove
  /\ hist.gAnchor = 4
  /\ hist.slot = 0
  /\ events[1] = <<EventBlock(0, 4, Standup)>>

\* The probe's proposal clamped into the day and ordered, written with Min
\* and Max.
ProbeNormalized ==
  LET a == Max(0, Min(probe.s, TOTAL_SLOTS - 1))
      b == Max(0, Min(probe.e, TOTAL_SLOTS - 1))
  IN  [start |-> Min(a, b), end |-> Max(a, b)]

Unobstructed ==
  \A o \in Intervals(ProbeOthers) :
    ~(ProbeNormalized.start <= o.end /\ o.start <= ProbeNormalized.end)

\* C18: when the normalized proposal overlaps no interval of the row other
\* than excludeIndex, the resolver returns exactly the normalized proposal.
C18_ResolverIdentity ==
  (Resolved /\ Unobstructed) => probe.out1 = ProbeNormalized

\* A reversed, out-of-range proposal between two other intervals.
C18_Witness ==
  /\ probe.pc = "once"
  /\ probe.row = <<EventBlock(5, 10, <<"C">>), EventBlock(40, 43, <<"E">>)>>
  /\ probe.ex = Null
  /\ probe.s = 39 /\ probe.e = 11
  /\ Unobstructed
  /\ probe.out1 = [start |-> 11, end |-> 39]

\* A gesture begun from idle by a pointer-down on an interval, made so far of
\* that pointer-down, pointer-enters on its row and at most a final pointer-up.
DragGesture ==
  /\ hist.gIdle
  /\ hist.gPure
  /\ findEventAt(hist.gEvents, hist.gRow, hist.gAnchor) # Null

\* The snapshot a pointer-down at the gesture's anchor takes of the rows the
\* gesture began with.
GestureSnapshot ==
  LET idx == findEventAt(hist.gEvents, hist.gRow, hist.gAnchor)
      evt == hist.gEvents[hist.gRow + 1][idx + 1]
  IN  [mode |-> dragModeFor(evt, hist.gAnchor), row |-> hist.gRow,
       eventIndex |-> idx, anchorSlot |-> hist.gAnchor,
       initialStart |-> evt.start, initialEnd |-> evt.end]

\* What one pointer-enter at x writes, starting from the pre-gesture rows.
WrittenFromSnapshot(x) ==
  LET d == GestureSnapshot
      p == proposedRange(d, x)
      allowed == allowedRangeFor(hist.gEvents[d.row + 1], d.eventIndex, p.start, p.end)
  IN  applyTempUpdate(hist.gEvents, d.row, d.eventIndex, allowed.start, allowed.end)

\* C19: no accumulating drift. In a moving or resizing gesture the rows after
\* a pointer-enter at x are what one pointer-enter at x gives from the
\* pre-gesture rows, whatever slots were visited before (so a repeated
\* pointer-enter changes nothing); with the pointer on the anchor slot, after
\* the pointer-down, after a pointer-enter back on it, or released there, the
\* rows are the pre-gesture rows.
C19_NoDrift ==
  DragGesture =>
    /\ hist.op = "enter" => events = WrittenFromSnapshot(hist.slot)
    /\ hist.gCur = hist.gAnchor => events = hist.gEvents

\* C20: the debounced save. While the auto-save timer is pending it holds the
\* rows of the latest mutation, so its firing writes them and never an older
\* value; once no timer is pending the rows of the last mutation are the ones
\* in storage, that is, the one write that follows a burst has happened.
C20_DebouncedSave ==
  /\ timerPending => timerRows = events
  /\ ~timerPending => storage = saveToStorage(events)

\* The last pointer-down hit an interval, and the drag in progress is the one
\* it began.
DragFromLastDown ==
  /\ hist.gRow = drag.row
  /\ hist.gAnchor = drag.anchorSlot
  /\ findEventAt(hist.gEvents, hist.gRow, hist.gAnchor) # Null

\* The interval that pointer-down hit, in the rows of that moment.
HitInterval ==
  hist.gEvents[hist.gRow + 1][findEventAt(hist.gEvents, hist.gRow, hist.gAnchor) + 1]

\* Position i of row r holds different start or end after the step.
RangeChanged(r, i) ==
  events'[r][i].start # events[r][i].start \/ events'[r][i].end # events[r][i].end

\* C21: the frame of a drag. A pointer-enter delivered in moving,
\* resizing-left or resizing-right keeps the number of intervals of every row
\* and every title, changes the start and end of no interval but the one hit
\* at pointer-down, and changes nothing when it is on another row than the
\* gesture's; deletes and clears may come between the pointer events.
C21_DragFrame ==
  [][ (hist'.op = "enter" /\ drag.mode # "none") =>
        /\ \A r \in 1 .. ROWS :
             /\ Len(events'[r]) = Len(events[r])
             /\ \A i \in 1 .. Len(events[r]) :
                  /\ i <= Len(events'[r]) => events'[r][i].title = events[r][i].title
                  /\ (i <= Len(events'[r]) /\ RangeChanged(r, i)) =>
                       /\ r = drag.row + 1
                       /\ DragFromLastDown => events[r][i].title = HitInterval.title
        /\ hist'.row # drag.row => events' = events ]_vars

=============================================================================
